---- MODULE Spec2Model ----
(***************************************************************************)
(* A model of rust_forvo_api: the text normalizer, the response parser,    *)
(* the scorer/selector (src/src/lib.rs), the streaming downloader          *)
(* (download_mp3) and the pipeline that main drives (src/src/main.rs).     *)
(*                                                                         *)
(* Text is a sequence of Unicode code points (numbers).  Opaque texts that *)
(* the program only compares or copies (user names, URLs) are strings.     *)
(* Integers of type i32 keep their width: I32Max is the real bound, and a  *)
(* JSON integer n (an i64) is held as the pair (hi, lo) with               *)
(* n = hi * 2^32 + lo and lo in the i32 range, so that `n as i32` is lo.   *)
(***************************************************************************)
EXTENDS Integers, Sequences, FiniteSets, TLC

VARIABLES
    pc,               \* position of the flow being run
    overflow_checks,  \* build profile: TRUE = debug (overflow panics), FALSE = release (wraps)
    word,             \* the input word (code points)
    dlpath,           \* the destination directory (code points)
    stripped_word,    \* strip_acute(word)
    url,              \* the query URL built by create_forvo_url
    query,            \* outcome of the query fetch
    json,             \* the JSON value handed to parse_pronunciations
    pronunciations,   \* result of parse_pronunciations
    selected,         \* find_highest_score: index of the chosen record, 0 = None
    audio,            \* download_mp3: request and response state
    file_path,        \* download_mp3: the path the file is written at (text)
    fs,               \* the filesystem: directories and files
    fs0,              \* the filesystem when the run started
    result,           \* what the flow returned
    fetches           \* number of attempts of each network fetch

vars == <<pc, overflow_checks, word, dlpath, stripped_word, url, query, json,
          pronunciations, selected, audio, file_path, fs, fs0, result, fetches>>

(***************************************************************************)
(* Bounds of the model.                                                    *)
(***************************************************************************)
MaxWordLen == 4
MaxItems == 2
MaxRecords == 3
MaxBody == 2

(***************************************************************************)
(* Code points.  47 is '/', 769 is U+0301 (combining acute accent), 1072   *)
(* is the Cyrillic letter a of the test word, and ".mp3" is 46 109 112 51. *)
(***************************************************************************)
Slash == 47
CombiningAcute == 769
CyrillicA == 1072
Mp3Ext == <<46, 109, 112, 51>>

\* The general category Mn (nonspacing mark) over the code points used here:
\* U+0300 (768) and U+0301 are Mn; U+0903 (2307) is Mc, a spacing combining
\* mark, which \p{Mn} does not match.
IsMn(c) == c \in {768, CombiningAcute}

Alphabet == {CyrillicA, CombiningAcute, 768, 2307}

RECURSIVE SeqsUpTo(_, _)
SeqsUpTo(S, n) ==
    IF n = 0 THEN {<<>>}
    ELSE LET shorter == SeqsUpTo(S, n - 1)
         IN shorter \cup {Append(s, x) : s \in {t \in shorter : Len(t) = n - 1}, x \in S}

(***************************************************************************)
(* strip_acute: Regex \p{Mn}, replace_all with the empty string.  The      *)
(* regex matches one code point at a time, left to right, and the text     *)
(* between matches is copied.                                              *)
(***************************************************************************)
RECURSIVE ReplaceFirstMn(_)
ReplaceFirstMn(w) ==
    IF w = <<>> THEN <<>>
    ELSE IF IsMn(Head(w)) THEN Tail(w)
    ELSE <<Head(w)>> \o ReplaceFirstMn(Tail(w))

RECURSIVE strip_acute(_)
strip_acute(w) ==
    IF w = <<>> THEN <<>>
    ELSE IF IsMn(Head(w)) THEN strip_acute(Tail(w))
    ELSE <<Head(w)>> \o strip_acute(Tail(w))

\* create_forvo_url: the format string with the key and the word inserted verbatim.
create_forvo_url(api_key, w) ==
    <<"https://apifree.forvo.com/key/", api_key,
      "/format/json/action/word-pronunciations/word/", w, "/language/ru">>

(***************************************************************************)
(* i32 arithmetic.  `a + b` on i32 panics on overflow when the build has   *)
(* overflow checks (debug) and wraps modulo 2^32 otherwise (release).      *)
(* Only b >= 0 occurs (the score increment).                               *)
(***************************************************************************)
I32Max == 2147483647
I32Min == (-I32Max) - 1

AddI32(a, b) ==
    IF a > I32Max - b
    THEN [overflow |-> TRUE, value |-> I32Min + (b - (I32Max - a) - 1)]
    ELSE [overflow |-> FALSE, value |-> a + b]

(***************************************************************************)
(* Pronunciation::new and calculate_score_increment.                       *)
(***************************************************************************)
special_users ==
    {"1640max", "Spinster", "szurzuncik", "ae5s", "Shady_arc", "zhivanova", "Selene71"}

calculate_score_increment(username) ==
    IF username \in special_users THEN 2 ELSE 0

\* The outcome of Pronunciation::new under the build profile `checks`:
\* a panic (overflow with checks on) or the record.
Pronunciation_new(id, hits, username, pathmp3, num_positive_votes, checks) ==
    LET sum == AddI32(num_positive_votes, calculate_score_increment(username))
    IN [panicked |-> sum.overflow /\ checks,
        value |-> [id |-> id, hits |-> hits, username |-> username,
                   pathmp3 |-> pathmp3, num_positive_votes |-> num_positive_votes,
                   score |-> sum.value]]

(***************************************************************************)
(* serde_json::Value.  A number is an i64 (hi, lo), or a number as_i64     *)
(* answers None for: a float, or a u64 above i64::MAX.                     *)
(***************************************************************************)
Null == [t |-> "null"]
JStr(s) == [t |-> "string", s |-> s]
JInt(hi, lo) == [t |-> "number", kind |-> "i64", hi |-> hi, lo |-> lo]
JFloat == [t |-> "number", kind |-> "f64"]
JArr(a) == [t |-> "array", a |-> a]
JObj(f) == [t |-> "object", fields |-> f]

\* value[key]: Null unless value is an object holding key.
Index(v, key) ==
    IF v.t = "object" /\ key \in DOMAIN v.fields THEN v.fields[key] ELSE Null

\* Option<T> as a record; unwrap_or gives the default for None.
None == [some |-> FALSE]
Some(x) == [some |-> TRUE, x |-> x]
unwrap_or(opt, d) == IF opt.some THEN opt.x ELSE d

as_i64(v) ==
    IF v.t = "number" /\ v.kind = "i64" THEN Some([hi |-> v.hi, lo |-> v.lo]) ELSE None
as_str(v) == IF v.t = "string" THEN Some(v.s) ELSE None
as_array(v) == IF v.t = "array" THEN Some(v.a) ELSE None

\* The literal 0 as an i64, and `n as i32`: the low 32 bits, sign included.
I64Zero == [hi |-> 0, lo |-> 0]
as_i32(n) == n.lo

parse_pronunciation_item(item, checks) ==
    LET id == as_i32(unwrap_or(as_i64(Index(item, "id")), I64Zero))
        hits == as_i32(unwrap_or(as_i64(Index(item, "hits")), I64Zero))
        username == unwrap_or(as_str(Index(item, "username")), "")
        pathmp3 == unwrap_or(as_str(Index(item, "pathmp3")), "")
        num_positive_votes ==
            as_i32(unwrap_or(as_i64(Index(item, "num_positive_votes")), I64Zero))
    IN Pronunciation_new(id, hits, username, pathmp3, num_positive_votes, checks)

\* The outcome of parse_pronunciations: the mapped items, or the panic of the
\* first item whose construction panics.
parse_pronunciations(j, checks) ==
    LET items == unwrap_or(as_array(Index(j, "items")), <<>>)
        each == [i \in 1..Len(items) |-> parse_pronunciation_item(items[i], checks)]
    IN [panicked |-> \E i \in 1..Len(items) : each[i].panicked,
        value |-> [i \in 1..Len(items) |-> each[i].value]]

(***************************************************************************)
(* find_highest_score: Iterator::max_by_key, a left-to-right fold that     *)
(* keeps the accumulator only when it compares Greater than the next       *)
(* element (core::cmp::max_by), and is None on an empty slice.  The result *)
(* is a reference into the slice: the index of the element, 0 for None.    *)
(***************************************************************************)
KeepOnGreaterOrEqual(ps, acc, i) == IF ps[acc].score >= ps[i].score THEN acc ELSE i

KeepOnLess(ps, acc, i) == IF ps[acc].score < ps[i].score THEN acc ELSE i

max_by(ps, acc, i) == IF ps[acc].score > ps[i].score THEN acc ELSE i

RECURSIVE Fold(_, _, _)
Fold(ps, acc, i) ==
    IF i > Len(ps) THEN acc ELSE Fold(ps, max_by(ps, acc, i), i + 1)

find_highest_score(ps) == IF Len(ps) = 0 THEN 0 ELSE Fold(ps, 1, 2)

(***************************************************************************)
(* Paths.  A path text resolves to whether it is absolute and its          *)
(* components (empty components, as in "a//b", are skipped).               *)
(***************************************************************************)
IsAbsolute(s) == s # <<>> /\ s[1] = Slash

RECURSIVE SplitComps(_, _)
SplitComps(rest, cur) ==
    LET done == IF cur = <<>> THEN <<>> ELSE <<cur>>
    IN IF rest = <<>> THEN done
       ELSE IF Head(rest) = Slash THEN done \o SplitComps(Tail(rest), <<>>)
       ELSE SplitComps(Tail(rest), Append(cur, Head(rest)))

PathOf(s) == [abs |-> IsAbsolute(s), comps |-> SplitComps(s, <<>>)]

\* Path::new(directory).join(file_name): an absolute file name replaces the
\* directory; otherwise it is appended after a separator.
PathJoin(dir, name) ==
    IF IsAbsolute(name) THEN name
    ELSE IF dir = <<>> \/ dir[Len(dir)] = Slash THEN dir \o name
    ELSE dir \o <<Slash>> \o name

Parent(p) == [abs |-> p.abs, comps |-> SubSeq(p.comps, 1, Len(p.comps) - 1)]

\* The directory p and its ancestors, down to depth k.
Ancestors(p, k) == {[abs |-> p.abs, comps |-> SubSeq(p.comps, 1, n)] : n \in 1..k}

\* The root and the working directory always exist.
DirExists(f, p) == p.comps = <<>> \/ p \in f.dirs
FileExists(f, p) == \E x \in f.files : x.path = p

is_success(status) == status >= 200 /\ status <= 299

\* The three results a flow can end with.
Ok(x) == [kind |-> "ok", value |-> x]
Err(e) == [kind |-> "err", error |-> e]
Running == [kind |-> "running"]
Panicked == [kind |-> "panic"]

(***************************************************************************)
(* State the flows below do not use keeps these values.                    *)
(***************************************************************************)
EmptyFs == [dirs |-> {}, files |-> {}]
NoAudio ==
    [url |-> "", status |-> 0, body |-> <<>>, received |-> 0, created |-> FALSE,
     ret |-> Running]
NoFetches == [query |-> 0, audio |-> 0]

NoPipeline ==
    /\ dlpath = <<>> /\ url = <<>> /\ query = Running /\ audio = NoAudio
    /\ file_path = <<>> /\ fs = EmptyFs /\ fs0 = EmptyFs /\ fetches = NoFetches

pipeline_vars == <<dlpath, url, query, audio, file_path, fs, fs0, fetches>>

(***************************************************************************)
(* The normalizer on its own: strip_acute applied to a word.               *)
(***************************************************************************)
InitStrip ==
    /\ pc = "strip"
    /\ word \in SeqsUpTo(Alphabet, MaxWordLen)
    /\ stripped_word = <<>>
    /\ overflow_checks = FALSE /\ json = Null /\ pronunciations = <<>>
    /\ selected = 0 /\ result = Running
    /\ NoPipeline

Strip ==
    /\ pc = "strip"
    /\ stripped_word' = strip_acute(word)
    /\ result' = Ok(stripped_word')
    /\ pc' = "stripped"
    /\ UNCHANGED <<overflow_checks, word, json, pronunciations, selected>>
    /\ UNCHANGED pipeline_vars

NextStrip == Strip

SpecStrip == InitStrip /\ [][NextStrip]_vars

(***************************************************************************)
(* The selector on its own: find_highest_score applied to records built by *)
(* Pronunciation::new.                                                     *)
(***************************************************************************)
RecordChoices == {[votes |-> v, username |-> u] : v \in {3, 5}, u \in {"1640max", "another_user"}}

BuildRecords(c) ==
    [i \in 1..Len(c) |->
        Pronunciation_new(i, 0, c[i].username, "http://example.com/pronunciation.mp3",
                          c[i].votes, FALSE).value]

InitSelect ==
    /\ pc = "select"
    /\ pronunciations \in {BuildRecords(c) : c \in SeqsUpTo(RecordChoices, MaxRecords)}
    /\ selected = 0
    /\ overflow_checks = FALSE /\ json = Null /\ word = <<>> /\ stripped_word = <<>>
    /\ result = Running
    /\ NoPipeline

Select ==
    /\ pc = "select"
    /\ selected' = find_highest_score(pronunciations)
    /\ result' = Ok(selected')
    /\ pc' = "selected"
    /\ UNCHANGED <<overflow_checks, word, stripped_word, json, pronunciations>>
    /\ UNCHANGED pipeline_vars

NextSelect == Select

SpecSelect == InitSelect /\ [][NextSelect]_vars

(***************************************************************************)
(* The parser on its own: parse_pronunciations applied to a JSON value,    *)
(* under either build profile.                                             *)
(***************************************************************************)
Absent == [t |-> "absent"]

\* An object holding the fields of r that are not Absent.
MkObj(r) == JObj([k \in {x \in DOMAIN r : r[x] # Absent} |-> r[k]])

ItemChoices ==
    {MkObj([id |-> i, hits |-> h, username |-> u, pathmp3 |-> p, num_positive_votes |-> v]) :
        i \in {Absent, JInt(0, 123), JInt(1, 5)},
        h \in {JStr("50"), JInt(0, 50)},
        u \in {Absent, JStr("1640max"), JStr("1640MAX")},
        p \in {Absent, JStr("http://example.com/pronunciation.mp3")},
        v \in {JFloat, JInt(0, 5), JInt(0, I32Max)}}
    \cup {JInt(0, 7)}

ParseInputs ==
    {MkObj([items |-> Absent]), MkObj([items |-> JStr("none")]), JArr(<<>>)}
    \cup {MkObj([items |-> JArr(a)]) : a \in SeqsUpTo(ItemChoices, MaxItems)}

InitParse ==
    /\ pc = "parse"
    /\ json \in ParseInputs
    /\ overflow_checks \in BOOLEAN
    /\ pronunciations = <<>>
    /\ selected = 0 /\ word = <<>> /\ stripped_word = <<>> /\ result = Running
    /\ NoPipeline

Parse ==
    /\ pc = "parse"
    /\ LET r == parse_pronunciations(json, overflow_checks)
       IN IF r.panicked
          THEN result' = Panicked /\ pronunciations' = <<>>
          ELSE result' = Ok(r.value) /\ pronunciations' = r.value
    /\ pc' = "parsed"
    /\ UNCHANGED <<overflow_checks, word, stripped_word, json, selected>>
    /\ UNCHANGED pipeline_vars

NextParse == Parse

SpecParse == InitParse /\ [][NextParse]_vars

(***************************************************************************)
(* Claims about the normalizer.                                            *)
(***************************************************************************)
NotMn(c) == ~IsMn(c)

MaxScoreIndices(ps) ==
    {i \in 1..Len(ps) : \A j \in 1..Len(ps) : ps[i].score >= ps[j].score}

Smallest(S) == CHOOSE i \in S : \A j \in S : i <= j
Largest(S) == CHOOSE i \in S : \A j \in S : i >= j

\* C1 as stated: when two or more records share the maximum score,
\* find_highest_score returns the first of them in input order.
C1_FirstOfTieWins ==
    (pc = "selected" /\ Cardinality(MaxScoreIndices(pronunciations)) >= 2) =>
        selected = Smallest(MaxScoreIndices(pronunciations))

\* C1 as amended: when two or more records share the maximum score,
\* find_highest_score returns the last of them in input order.
C1_LastOfTieWins ==
    (pc = "selected" /\ Cardinality(MaxScoreIndices(pronunciations)) >= 2) =>
        selected = Largest(MaxScoreIndices(pronunciations))

\* Scores [5, 5, 3]: the tie of the spec's example has been selected from.
C1_Witness ==
    /\ pc = "selected"
    /\ Len(pronunciations) = 3
    /\ pronunciations[1].score = 5 /\ pronunciations[2].score = 5
    /\ pronunciations[3].score = 3
    /\ selected = 2

\* C2: find_highest_score returns None exactly on the empty slice; otherwise
\* it returns an element of the slice whose score is at least every score.
C2_SelectsAMaximum ==
    pc = "selected" =>
        /\ (selected = 0) <=> (Len(pronunciations) = 0)
        /\ Len(pronunciations) > 0 =>
              /\ selected \in 1..Len(pronunciations)
              /\ \A j \in 1..Len(pronunciations) :
                    pronunciations[selected].score >= pronunciations[j].score

\* The maximum is strictly inside a slice of three distinct scores.
C2_Witness ==
    /\ pc = "selected"
    /\ Len(pronunciations) = 3
    /\ pronunciations[1].score = 3 /\ pronunciations[2].score = 7
    /\ pronunciations[3].score = 5
    /\ selected = 2

(***************************************************************************)
(* Claims about the parser and the score.                                  *)
(***************************************************************************)
\* s = v + b over the integers, for an i32 v, an i32 s and b >= 0 (no i32
\* holds v + b when v > I32Max - b).
ExactSum(v, b, s) == v <= I32Max - b /\ s = v + b

Items(j) == unwrap_or(as_array(Index(j, "items")), <<>>)

\* C3 as stated: every record built has score = num_positive_votes + bonus,
\* bonus being 2 exactly for the seven listed names and 0 otherwise.
C3_ScoreIsVotesPlusBonus ==
    (pc = "parsed" /\ result.kind = "ok") =>
        \A i \in 1..Len(pronunciations) :
            ExactSum(pronunciations[i].num_positive_votes,
                     IF pronunciations[i].username \in special_users THEN 2 ELSE 0,
                     pronunciations[i].score)

\* An integer field as the claim has it: the item's integer when the item
\* holds one, and 0 otherwise.
IntFieldAsClaimed(v, field) ==
    IF v.t = "number" /\ v.kind = "i64" THEN v.hi = 0 /\ field = v.lo ELSE field = 0

StrFieldAsClaimed(v, field) ==
    IF v.t = "string" THEN field = v.s ELSE field = ""

\* C4 as stated, on the runs where parse_pronunciations returns: one record
\* per element of items, in order, each field taken from the item when
\* present with the right type and defaulted otherwise; the empty sequence
\* when items is absent or not an array.
C4_OneRecordPerItem ==
    (pc = "parsed" /\ result.kind = "ok") =>
        /\ Len(pronunciations) = Len(Items(json))
        /\ \A i \in 1..Len(pronunciations) :
              LET item == Items(json)[i]
                  r == pronunciations[i]
              IN /\ IntFieldAsClaimed(Index(item, "id"), r.id)
                 /\ IntFieldAsClaimed(Index(item, "hits"), r.hits)
                 /\ StrFieldAsClaimed(Index(item, "username"), r.username)
                 /\ StrFieldAsClaimed(Index(item, "pathmp3"), r.pathmp3)
                 /\ IntFieldAsClaimed(Index(item, "num_positive_votes"), r.num_positive_votes)

\* C8 as stated: the parser never fails, also on integers at the bounds of
\* the i32 range, and each record still has score = votes + bonus.
C8_ParserNeverFails ==
    pc = "parsed" =>
        /\ result.kind = "ok"
        /\ \A i \in 1..Len(result.value) :
              ExactSum(result.value[i].num_positive_votes,
                       calculate_score_increment(result.value[i].username),
                       result.value[i].score)

(***************************************************************************)
(* The pipeline: main from the point where the key, the word and the       *)
(* download path are known (main.rs line 132), calling download_mp3.  Each *)
(* action is the code between two await points, one action per outcome.    *)
(* write_all returning Ok is taken as the chunk being in the file.         *)
(***************************************************************************)
PipelineWords == {<<CyrillicA>>, <<CyrillicA, CombiningAcute>>, <<Slash, CyrillicA>>}
PipelineDirs == {<<111>>, <<111, Slash, 115>>}
Statuses == {200, 404}
Bodies == SeqsUpTo({1, 2}, MaxBody)
OldContent == <<9, 9, 9>>

PipelineItem(u, v, p) ==
    MkObj([id |-> JInt(0, 123), hits |-> JInt(0, 50), username |-> JStr(u),
           pathmp3 |-> JStr(p), num_positive_votes |-> JInt(0, v)])

PipelineJsons ==
    {MkObj([items |-> Absent]),
     MkObj([items |-> JArr(<<PipelineItem("another_user", 3, "http://example.com/1.mp3")>>)]),
     MkObj([items |-> JArr(<<PipelineItem("1640max", 3, "http://example.com/1.mp3"),
                             PipelineItem("another_user", 5, "http://example.com/2.mp3")>>)]),
     MkObj([items |-> JArr(<<PipelineItem("1640max", I32Max, "http://example.com/1.mp3")>>)])}

\* The path download_mp3 writes at, for a directory and a word.
TargetPath(dir, w) == PathOf(PathJoin(dir, w \o Mp3Ext))

InitialFs(dir, w) ==
    LET d == PathOf(dir)
        made == [dirs |-> Ancestors(d, Len(d.comps)), files |-> {}]
        target == TargetPath(dir, strip_acute(w))
    IN {EmptyFs, made}
       \cup {[f EXCEPT !.files = {[path |-> target, content |-> OldContent]}] :
                f \in {g \in {EmptyFs, made} : DirExists(g, Parent(target))}}

Init ==
    /\ pc = "start"
    /\ overflow_checks \in BOOLEAN
    /\ word \in PipelineWords
    /\ dlpath \in PipelineDirs
    /\ fs \in InitialFs(dlpath, word)
    /\ fs0 = fs
    /\ stripped_word = <<>> /\ url = <<>> /\ query = Running /\ json = Null
    /\ pronunciations = <<>> /\ selected = 0 /\ audio = NoAudio /\ file_path = <<>>
    /\ result = Running /\ fetches = NoFetches

\* main, lines 132-138: normalize, build the URL, send the query.
SendQuery ==
    /\ pc = "start"
    /\ stripped_word' = strip_acute(word)
    /\ url' = create_forvo_url("test_api_key", stripped_word')
    /\ fetches' = [fetches EXCEPT !.query = @ + 1]
    /\ UNCHANGED <<overflow_checks, word, dlpath, json, pronunciations, selected,
                   audio, file_path, fs, fs0>>

\* send().await? fails: main returns the error.
MainQueryFails ==
    /\ SendQuery
    /\ query' = Err("transport")
    /\ result' = Err("transport")
    /\ pc' = "done"

\* A non-success status: main prints it and returns Ok.
MainQueryRefused ==
    /\ SendQuery
    /\ \E status \in Statuses :
          /\ ~is_success(status)
          /\ query' = [kind |-> "response", status |-> status]
    /\ result' = Ok("request failed")
    /\ pc' = "done"

MainQueryAnswered ==
    /\ SendQuery
    /\ \E status \in Statuses :
          /\ is_success(status)
          /\ query' = [kind |-> "response", status |-> status]
    /\ result' = Running
    /\ pc' = "query_body"

\* response.json().await? fails: the body is not JSON, or its read fails.
MainJsonFails ==
    /\ pc = "query_body"
    /\ result' = Err("json")
    /\ pc' = "done"
    /\ UNCHANGED <<overflow_checks, word, dlpath, stripped_word, url, query, json,
                   pronunciations, selected, audio, file_path, fs, fs0, fetches>>

\* The body is the JSON value j: lines 142-149 and 176-178.
MainBody(j) ==
    /\ pc = "query_body"
    /\ json' = j
    /\ UNCHANGED <<overflow_checks, word, dlpath, stripped_word, url, query,
                   file_path, fs, fs0, fetches>>

MainParsePanics ==
    \E j \in PipelineJsons :
        /\ MainBody(j)
        /\ parse_pronunciations(j, overflow_checks).panicked
        /\ result' = Panicked
        /\ pc' = "done"
        /\ UNCHANGED <<pronunciations, selected, audio>>

MainNothingFound ==
    \E j \in PipelineJsons :
        LET r == parse_pronunciations(j, overflow_checks)
        IN /\ MainBody(j)
           /\ ~r.panicked
           /\ find_highest_score(r.value) = 0
           /\ pronunciations' = r.value
           /\ selected' = 0
           /\ result' = Ok("no pronunciation found")
           /\ pc' = "done"
           /\ UNCHANGED audio

MainSelects ==
    \E j \in PipelineJsons :
        LET r == parse_pronunciations(j, overflow_checks)
        IN /\ MainBody(j)
           /\ ~r.panicked
           /\ find_highest_score(r.value) # 0
           /\ pronunciations' = r.value
           /\ selected' = find_highest_score(r.value)
           /\ audio' = [audio EXCEPT !.url = r.value[selected'].pathmp3]
           /\ result' = Running
           /\ pc' = "dl_send"

(***************************************************************************)
(* download_mp3(url = audio.url, directory = dlpath, word = stripped_word). *)
(* An Err it returns is propagated by main's `?`.                          *)
(***************************************************************************)
dl_frame == <<overflow_checks, word, dlpath, stripped_word, url, query, json,
              pronunciations, selected, fs0>>

\* download_mp3 returns Err(e), and main with it.
DownloadReturnsErr(a, e) ==
    /\ audio' = [a EXCEPT !.ret = Err(e)]
    /\ result' = Err(e)
    /\ pc' = "done"

\* client.get(url).send().await, line 148.
SendAudio ==
    /\ pc = "dl_send"
    /\ fetches' = [fetches EXCEPT !.audio = @ + 1]
    /\ UNCHANGED dl_frame

\* The same send, which on failure is tried again instead of returned.
DownloadSendRetries ==
    /\ SendAudio
    /\ UNCHANGED <<audio, result, pc, file_path, fs>>

DownloadSendFails ==
    /\ SendAudio
    /\ DownloadReturnsErr(audio, "transport")
    /\ UNCHANGED <<file_path, fs>>

\* The same refusal with the status looked at only after create_dir_all.
DownloadRefusedAfterMkdir ==
    /\ SendAudio
    /\ \E status \in Statuses :
          /\ ~is_success(status)
          /\ DownloadReturnsErr([audio EXCEPT !.status = status],
                                <<"Failed to download file: ", status>>)
    /\ LET d == PathOf(dlpath)
       IN fs' = [fs EXCEPT !.dirs = @ \cup Ancestors(d, Len(d.comps))]
    /\ UNCHANGED file_path

\* Lines 151-153: a non-success status is returned as an error naming it.
DownloadRefused ==
    /\ SendAudio
    /\ \E status \in Statuses :
          /\ ~is_success(status)
          /\ DownloadReturnsErr([audio EXCEPT !.status = status],
                                <<"Failed to download file: ", status>>)
    /\ UNCHANGED <<file_path, fs>>

\* Lines 151-159: a success status; the file name and path are computed.
DownloadAnswered ==
    /\ SendAudio
    /\ \E status \in Statuses, body \in Bodies :
          /\ is_success(status)
          /\ audio' = [audio EXCEPT !.status = status, !.body = body]
    /\ file_path' = PathJoin(dlpath, stripped_word \o Mp3Ext)
    /\ result' = Running
    /\ pc' = "dl_mkdir"
    /\ UNCHANGED fs

\* create_dir_all(directory).await?, line 162: the directory and its missing
\* ancestors are made, unless one of them is a file.
DownloadCreateDir ==
    /\ pc = "dl_mkdir"
    /\ LET d == PathOf(dlpath)
       IN /\ \A a \in Ancestors(d, Len(d.comps)) : ~FileExists(fs, a)
          /\ fs' = [fs EXCEPT !.dirs = @ \cup Ancestors(d, Len(d.comps))]
    /\ pc' = "dl_create"
    /\ UNCHANGED <<audio, result, file_path, fetches>>
    /\ UNCHANGED dl_frame

\* It fails (permissions, disk full) after making k of the ancestors.
DownloadCreateDirFails ==
    /\ pc = "dl_mkdir"
    /\ LET d == PathOf(dlpath)
       IN \E k \in 0..(Len(d.comps) - 1) :
             fs' = [fs EXCEPT !.dirs = @ \cup Ancestors(d, k)]
    /\ DownloadReturnsErr(audio, "io")
    /\ UNCHANGED <<file_path, fetches>>
    /\ UNCHANGED dl_frame

ContentAt(f, p) == (CHOOSE x \in f.files : x.path = p).content
WithFile(f, p, c) ==
    [f EXCEPT !.files = {x \in @ : x.path # p} \cup {[path |-> p, content |-> c]}]

\* File::create(&file_path).await?, line 165: the file is created, or
\* truncated when it exists; its parent must exist.
DownloadCreateFile ==
    /\ pc = "dl_create"
    /\ LET p == PathOf(file_path)
       IN /\ p.comps # <<>> /\ DirExists(fs, Parent(p)) /\ p \notin fs.dirs
          /\ fs' = WithFile(fs, p, <<>>)
    /\ audio' = [audio EXCEPT !.created = TRUE]
    /\ pc' = "dl_stream"
    /\ UNCHANGED <<result, file_path, fetches>>
    /\ UNCHANGED dl_frame

DownloadCreateFileFails ==
    /\ pc = "dl_create"
    /\ DownloadReturnsErr(audio, "io")
    /\ UNCHANGED <<file_path, fs, fetches>>
    /\ UNCHANGED dl_frame

\* Lines 168-170: chunk().await? gives the next k bytes of the body and
\* write_all(&chunk).await? appends them to the file.
DownloadChunk ==
    /\ pc = "dl_stream"
    /\ \E k \in 1..(Len(audio.body) - audio.received) :
          LET chunk == SubSeq(audio.body, audio.received + 1, audio.received + k)
              p == PathOf(file_path)
          IN /\ fs' = WithFile(fs, p, ContentAt(fs, p) \o chunk)
             /\ audio' = [audio EXCEPT !.received = @ + k]
    /\ UNCHANGED <<pc, result, file_path, fetches>>
    /\ UNCHANGED dl_frame

\* chunk().await? fails: the connection drops mid-stream.
DownloadReadFails ==
    /\ pc = "dl_stream"
    /\ DownloadReturnsErr(audio, "transport")
    /\ UNCHANGED <<file_path, fs, fetches>>
    /\ UNCHANGED dl_frame

\* write_all(&chunk).await? fails after n bytes of the chunk were written.
DownloadWriteFails ==
    /\ pc = "dl_stream"
    /\ \E k \in 1..(Len(audio.body) - audio.received) :
          \E n \in 0..(k - 1) :
             LET written == SubSeq(audio.body, audio.received + 1, audio.received + n)
                 p == PathOf(file_path)
             IN /\ fs' = WithFile(fs, p, ContentAt(fs, p) \o written)
                /\ DownloadReturnsErr([audio EXCEPT !.received = @ + k], "io")
    /\ UNCHANGED <<file_path, fetches>>
    /\ UNCHANGED dl_frame

\* chunk() gives None: lines 172-174, then main lines 152-183, which print
\* the path and return Ok (the collection branch changes nothing).
DownloadDone ==
    /\ pc = "dl_stream"
    /\ audio.received = Len(audio.body)
    /\ audio' = [audio EXCEPT !.ret = Ok(file_path)]
    /\ result' = Ok(file_path)
    /\ pc' = "done"
    /\ UNCHANGED <<file_path, fs, fetches>>
    /\ UNCHANGED dl_frame

Next ==
    \/ MainQueryFails \/ MainQueryRefused \/ MainQueryAnswered
    \/ MainJsonFails \/ MainParsePanics \/ MainNothingFound \/ MainSelects
    \/ DownloadSendFails \/ DownloadRefused \/ DownloadAnswered
    \/ DownloadCreateDir \/ DownloadCreateDirFails
    \/ DownloadCreateFile \/ DownloadCreateFileFails
    \/ DownloadChunk \/ DownloadReadFails \/ DownloadWriteFails \/ DownloadDone

Spec == Init /\ [][Next]_vars

(***************************************************************************)
(* Claims about download_mp3 and the pipeline.                             *)
(***************************************************************************)
IsPrefix(a, b) == Len(a) <= Len(b) /\ a = SubSeq(b, 1, Len(a))

\* The path the claims name: the text <directory>/<word>.mp3.
ClaimedPath == PathOf(dlpath \o <<Slash>> \o stripped_word \o Mp3Ext)

\* C5: a non-success status of the audio fetch makes download_mp3 return an
\* error whose message holds the status, before any filesystem action: no
\* directory is created, and the file is neither created nor written.
C5_RefusedBeforeFilesystem ==
    (audio.status # 0 /\ audio.status \notin 200..299) =>
        /\ audio.ret = Err(<<"Failed to download file: ", audio.status>>)
        /\ fs = fs0
        /\ ~audio.created

\* The audio fetch was refused with 404 while the directory did not exist.
C5_Witness ==
    /\ pc = "done"
    /\ audio.status = 404
    /\ audio.ret.kind = "err"
    /\ ~DirExists(fs0, PathOf(dlpath))

\* C6 as stated: when download_mp3 returns Ok, the directory exists, the
\* file <directory>/<word>.mp3 holds exactly the response body, with nothing
\* of an earlier file, and that path is what is returned.
C6_BodyAtDirectoryWordMp3 ==
    audio.ret.kind = "ok" =>
        /\ DirExists(fs, PathOf(dlpath))
        /\ FileExists(fs, ClaimedPath)
        /\ ContentAt(fs, ClaimedPath) = audio.body
        /\ PathOf(audio.ret.value) = ClaimedPath

\* C6, for the path the code computes (Path::join): when download_mp3
\* returns Ok, the directory exists and the file at the joined path holds
\* exactly the body; the joined path is returned.
C6_BodyAtJoinedPath ==
    audio.ret.kind = "ok" =>
        /\ DirExists(fs, PathOf(dlpath))
        /\ FileExists(fs, TargetPath(dlpath, stripped_word))
        /\ ContentAt(fs, TargetPath(dlpath, stripped_word)) = audio.body
        /\ audio.ret.value = PathJoin(dlpath, stripped_word \o Mp3Ext)

\* C10 as stated: when a chunk read or a file write fails after the file was
\* created, download_mp3 returns an error and cleans nothing up: the file
\* stays at <directory>/<word>.mp3 holding a prefix of the body, and the
\* directory stays.
C10_PartialFileAtDirectoryWordMp3 ==
    (audio.created /\ pc = "done" /\ audio.ret.kind # "ok") =>
        /\ audio.ret.kind = "err"
        /\ DirExists(fs, PathOf(dlpath))
        /\ FileExists(fs, ClaimedPath)
        /\ IsPrefix(ContentAt(fs, ClaimedPath), audio.body)

\* C10, for the path the code computes: the partial file stays at the
\* joined path, holding a prefix of the body, and the directory stays.
C10_PartialFileAtJoinedPath ==
    (audio.created /\ pc = "done" /\ audio.ret.kind # "ok") =>
        /\ audio.ret.kind = "err"
        /\ DirExists(fs, PathOf(dlpath))
        /\ FileExists(fs, TargetPath(dlpath, stripped_word))
        /\ IsPrefix(ContentAt(fs, TargetPath(dlpath, stripped_word)), audio.body)

\* C9: each network fetch is attempted at most once; the audio fetch happens
\* only after the query succeeded, its body was parsed and a record was
\* selected, and it targets that record's pathmp3; a run whose query failed
\* or was refused, or that selected no record, ends with no audio fetch and
\* the filesystem untouched.
C9_FetchesOnceInOrder ==
    /\ fetches.query <= 1 /\ fetches.audio <= 1
    /\ fetches.audio = 1 =>
          /\ fetches.query = 1
          /\ query.kind = "response" /\ query.status \in 200..299
          /\ pronunciations = parse_pronunciations(json, overflow_checks).value
          /\ selected \in 1..Len(pronunciations)
          /\ audio.url = pronunciations[selected].pathmp3
    /\ (pc = "done" /\ (query.kind = "err" \/ selected = 0 \/ query.status \notin 200..299)) =>
          /\ fetches.audio = 0
          /\ fs = fs0

\* A run that fetched the audio of the second of two records and ended.
C9_Witness ==
    /\ pc = "done"
    /\ fetches = [query |-> 1, audio |-> 1]
    /\ Len(pronunciations) = 2
    /\ selected = 2
    /\ audio.url = "http://example.com/2.mp3"
    /\ audio.ret.kind = "ok"

====
